---- MODULE Spec2Model ----
(***************************************************************************)
(* Model of src/etl.py: the extract / transform / load pipeline of the     *)
(* movie ETL project.  main() is a sequential program; its position is pc. *)
(* The remote API and the PostgreSQL store are the environment: the API    *)
(* answers each page with a response it then keeps for the rest of the     *)
(* behaviour, and the store executes the INSERT ... ON CONFLICT statements *)
(* that insert_on_conflict_update builds.                                  *)
(***************************************************************************)
EXTENDS Integers, Sequences, FiniteSets, Bags, TLC

\* ------------------------------------------------------------- bounds
\* Largest total_pages value the API reports, and so the last page of a run.
MaxPages == 2
\* Number of times main() is started against the same store (re-runs).
MaxRuns == 2
\* The fetch log keeps the first MaxLog fetches of a run.
MaxLog == 4
\* Rows per INSERT statement sent by execute_values (its page_size, scaled).
PageSize == 2

\* ------------------------------------------------------------- values
\* JSON null / None / NaN / NaT.
Null == "null"
\* A key that a raw record does not carry.
Absent == "absent"

\* A JSON field that holds a list, null, or is missing.
GL(s) == [k |-> "list", v |-> s]
GNull == [k |-> "null", v |-> <<>>]
GAbsent == [k |-> "absent", v |-> <<>>]

\* The columns transform_movies drops besides genre_ids.
DropCols == {"backdrop_path", "poster_path", "video", "adult"}

\* A raw movie record of the API.
Rec(id, gids, title, date, present) ==
    [id |-> id, genre_ids |-> gids, title |-> title, release_date |-> date,
     present |-> present]

\* ------------------------------------------------------------ helpers
RECURSIVE Concat(_)
Concat(ss) == IF ss = <<>> THEN <<>> ELSE Head(ss) \o Concat(Tail(ss))

Range(s) == {s[i] : i \in 1..Len(s)}

Min(a, b) == IF a <= b THEN a ELSE b

\* ------------------------------------------------------------ extract
\* str(response.status_code).startswith('20')
StartsWith20(status) ==
    \/ status = 20
    \/ status \in 200..209
    \/ status \in 2000..2099

\* A value that may be None: the results field of a JSON body.
Some(s) == [null |-> FALSE, v |-> s]
None == [null |-> TRUE, v |-> <<>>]

\* Python truthiness of a list-or-None.
Truthy(o) == ~o.null /\ Len(o.v) > 0

\* An HTTP exchange as the extractor sees it: kind "exc" is a transport or
\* JSON decoding exception, kind "http" a decoded response.  results is the
\* body's named field (None when the body lacks it), total_pages the set
\* holding the body's total_pages when it has one.
Exc == [kind |-> "exc", status |-> 0, results |-> None, total_pages |-> {}]
Http(status, results, tp) ==
    [kind |-> "http", status |-> status, results |-> results, total_pages |-> tp]

\* What extract_movies returns: None after a caught exception, otherwise
\* the pair (results, total_pages).
extract_movies(resp) ==
    IF resp.kind = "exc"
    THEN [ret |-> "none", results |-> None, total_pages |-> 0]
    ELSE IF StartsWith20(resp.status)
    THEN [ret |-> "tuple", results |-> resp.results,
          total_pages |-> IF resp.total_pages = {} THEN 1
                          ELSE CHOOSE n \in resp.total_pages : TRUE]
    ELSE [ret |-> "tuple", results |-> Some(<<>>), total_pages |-> 0]

\* What extract_genre returns: None after a caught exception, the named
\* field on a 20x response, the empty list otherwise.
extract_genre(resp) ==
    IF resp.kind = "exc" THEN None
    ELSE IF StartsWith20(resp.status) THEN resp.results
    ELSE Some(<<>>)

\* ---------------------------------------------------------- transform
\* A relation handed to load: a DataFrame, as its column names and its rows.
Rel(keys, rows) == [keys |-> keys, rows |-> rows]
NoRel == Rel({}, <<>>)

\* A column exists in pd.DataFrame(results) when some record carries the key.
HasId(results) == \E i \in 1..Len(results) : results[i].id # Absent
HasGenreIds(results) == \E i \in 1..Len(results) : results[i].genre_ids.k # "absent"
HasReleaseDate(results) == \E i \in 1..Len(results) : results[i].release_date # Absent
HasDropCols(results) ==
    \A c \in DropCols : \E i \in 1..Len(results) : c \in results[i].present

\* dropna(subset=['id']) then dropna(subset=['genre_ids']): the records kept.
KeepsId(r) == r.id \notin {Absent, Null}
\* A transform that filters on id alone.
KeepsGenreIds_Always(r) == TRUE
KeepsGenreIds(r) == r.genre_ids.k = "list"
Kept(results) ==
    LET S1 == SelectSeq(results, KeepsId)
    IN  SelectSeq(S1, KeepsGenreIds)

\* DataFrame.explode on genre_ids for one record: one row per element, and one
\* row holding NaN for an empty list.
ExplodeOne(r) ==
    IF r.genre_ids.v = <<>>
    THEN << [movie_id |-> r.id, genre_id |-> Null] >>
    ELSE [i \in 1..Len(r.genre_ids.v) |->
            [movie_id |-> r.id, genre_id |-> r.genre_ids.v[i]]]

Explode(kept) == Concat([i \in 1..Len(kept) |-> ExplodeOne(kept[i])])

\* Join rows taken from every record of the page, kept or not.
MovieGenreRows_Unfiltered(results) ==
    SelectSeq(Concat([i \in 1..Len(results) |->
                        [j \in 1..Len(results[i].genre_ids.v) |->
                            [movie_id |-> results[i].id,
                             genre_id |-> results[i].genre_ids.v[j]]]]),
              LAMBDA row : row.genre_id # Null)

\* dropna(subset=['genre_id']) on the exploded frame.
HasGenre(row) == row.genre_id # Null
MovieGenreRows(results) == SelectSeq(Explode(Kept(results)), HasGenre)

\* pd.to_datetime on one cell: missing, null and empty values become NaT, a
\* calendar date is kept, anything else raises.
Dates == {"2019-03-01", "2020-01-01"}
Unparsable(v) == v \notin Dates \cup {Absent, Null, ""}
ParseDate(v) == IF v \in Dates THEN v ELSE Null

MovieRow(r) ==
    [id |-> r.id, title |-> r.title, release_date |-> ParseDate(r.release_date)]

MovieRows(results) ==
    LET kept == Kept(results)
    IN  [i \in 1..Len(kept) |-> MovieRow(kept[i])]

\* The exceptions transform_movies catches: a missing column (KeyError in
\* dropna, in df['release_date'] or in drop) and an unparsable release date
\* among the records kept.
TransformMoviesRaises(results) ==
    \/ ~HasId(results)
    \/ ~HasGenreIds(results)
    \/ ~HasReleaseDate(results)
    \/ \E r \in Range(Kept(results)) : Unparsable(r.release_date)
    \/ ~HasDropCols(results)

\* transform_movies: (movies, movie_genres), or None after a caught exception.
transform_movies(results) ==
    IF TransformMoviesRaises(results)
    THEN [ok |-> FALSE, movies |-> NoRel, movie_genres |-> NoRel]
    ELSE [ok |-> TRUE,
          movies |-> Rel({"id", "title", "release_date"}, MovieRows(results)),
          movie_genres |-> Rel({"movie_id", "genre_id"}, MovieGenreRows(results))]

\* A raw genre record.
GRec(id, name) == [id |-> id, name |-> name]

GenreKeys(results) ==
    {"id"} \cup (IF \E i \in 1..Len(results) : results[i].name # Absent
                 THEN {"name"} ELSE {})

GenreRow(r) ==
    [id |-> IF r.id = Absent THEN Null ELSE r.id,
     name |-> IF r.name = Absent THEN Null ELSE r.name]

\* transform_genre: genre_df['id'].dropna(inplace=True) drops from the column
\* it was handed, not from genre_df, so every record stays; None after the
\* KeyError of a frame without an id column.
transform_genre(results) ==
    IF ~(\E i \in 1..Len(results) : results[i].id # Absent)
    THEN [ok |-> FALSE, rel |-> NoRel]
    ELSE [ok |-> TRUE,
          rel |-> Rel(GenreKeys(results),
                      [i \in 1..Len(results) |-> GenreRow(results[i])])]

\* --------------------------------------------------------------- load
TableNames == {"genres", "movies", "movie_genres"}

\* A table is the bag of its rows.
One(row) == SetToBag({row})
Rows(tbl) == BagToSet(tbl)

\* An id conflict that keeps the existing row: ON CONFLICT (id) DO NOTHING.
UpdateOnConflict_KeepExisting(tbl, keys, row) ==
    IF \E old \in Rows(tbl) : old.id = row.id THEN tbl ELSE tbl (+) One(row)

\* One VALUES row under ON CONFLICT (id) DO UPDATE SET k = EXCLUDED.k for
\* every key k of the frame but id: the existing row with that id takes the
\* incoming values of those columns, otherwise the row is inserted.
UpdateOnConflict(tbl, keys, row) ==
    IF \E old \in Rows(tbl) : old.id = row.id
    THEN LET old == CHOOSE o \in Rows(tbl) : o.id = row.id
             new == [c \in DOMAIN old |->
                        IF c \in keys \ {"id"} THEN row[c] ELSE old[c]]
         IN  (tbl (-) One(old)) (+) One(new)
    ELSE tbl (+) One(row)

\* A join-table write that replaces the rows the movie had.
NothingOnConflict_ReplaceMovie(tbl, keys, row) ==
    [r \in {x \in Rows(tbl) : x.movie_id # row.movie_id} |-> tbl[r]] (+) One(row)

\* An INSERT into movie_genres without conflict clause.
NothingOnConflict_Insert(tbl, keys, row) == tbl (+) One(row)

\* One VALUES row under ON CONFLICT (movie_id, genre_id) DO NOTHING.
NothingOnConflict(tbl, keys, row) ==
    IF \E old \in Rows(tbl) :
          old.movie_id = row.movie_id /\ old.genre_id = row.genre_id
    THEN tbl
    ELSE tbl (+) One(row)

\* An INSERT without conflict clause, whatever the table.
ConflictRule_Insert(name, tbl, keys, row) == tbl (+) One(row)

\* The conflict rule insert_on_conflict_update picks from the table name.
ConflictRule(name, tbl, keys, row) ==
    IF name = "movie_genres"
    THEN NothingOnConflict(tbl, keys, row)
    ELSE UpdateOnConflict(tbl, keys, row)

\* The rows of one INSERT statement applied in order.
RECURSIVE Statement(_, _, _, _)
Statement(name, tbl, keys, rows) ==
    IF rows = <<>> THEN tbl
    ELSE Statement(name, ConflictRule(name, tbl, keys, Head(rows)), keys, Tail(rows))

\* Statements the store rejects whatever its state: for the DO UPDATE form an
\* empty SET list (a frame whose only column is id), a null primary key, and
\* two rows of one statement with the same id (the command may not affect a
\* row a second time).
StatementRejected(name, keys, rows) ==
    /\ name # "movie_genres"
    /\ \/ keys \ {"id"} = {}
       \/ \E i \in 1..Len(rows) : rows[i].id = Null
       \/ \E i, j \in 1..Len(rows) : i # j /\ rows[i].id = rows[j].id

\* A text value that holds a NUL character: JSON can carry it, psycopg2
\* refuses to adapt it and raises on the client when it builds the page of
\* rows the value is in.
NulText == "nul"
PageRaises(rows) ==
    \E i \in 1..Len(rows) : \E c \in DOMAIN rows[i] : rows[i][c] = NulText

\* execute_values sends data_iter in pages of page_size rows, one statement each.
FirstPage(rows) == SubSeq(rows, 1, Min(PageSize, Len(rows)))
AfterFirstPage(rows) == SubSeq(rows, Min(PageSize, Len(rows)) + 1, Len(rows))

\* All statements of a load that nothing rejects and no fault interrupts.
RECURSIVE WriteAll(_, _, _, _)
WriteAll(name, tbl, keys, rows) ==
    IF rows = <<>> THEN tbl
    ELSE WriteAll(name, Statement(name, tbl, keys, FirstPage(rows)), keys,
                  AfterFirstPage(rows))

\* Whether some statement of the load is rejected.
RECURSIVE AnyRejected(_, _, _)
AnyRejected(name, keys, rows) ==
    IF rows = <<>> THEN FALSE
    ELSE \/ StatementRejected(name, keys, FirstPage(rows))
         \/ AnyRejected(name, keys, AfterFirstPage(rows))

\* ---------------------------------------------------- the environment
\* Result lists the movie endpoint may serve in a run: a record whose genre
\* list repeats an element and holds a null; a page that mixes records without
\* id or without genre list with a record that changes movie m1; a page whose
\* release date cannot be parsed; an empty page.
MovieResults ==
    { << Rec("m1", GL(<<"g1", "g2", "g2", Null>>), "a", "2020-01-01", DropCols) >>,
      << Rec(Null, GL(<<"g1">>), "a", "bad", DropCols),
         Rec("m1", GL(<<"g3">>), "b", "", DropCols),
         Rec("m2", GNull, "b", "2020-01-01", DropCols) >>,
      << Rec("m2", GL(<<"g1">>), "a", "bad", DropCols) >>,
      << >> }

\* Responses of the movie endpoint: an exception, a status that is not 20x
\* (its body is never read), or a 20x status with a body whose results field
\* is a list or missing and whose total_pages is a number or missing.
MovieResponses ==
    {Exc, Http(401, Some(<<>>), {}), Http(503, Some(<<>>), {})}
    \cup {Http(200, rs, tp) :
            rs \in {Some(r) : r \in MovieResults} \cup {None},
            tp \in {{}} \cup {{n} : n \in 0..MaxPages}}
    \cup {Http(201, Some(r), {MaxPages}) : r \in MovieResults}

\* Result lists the genre endpoint may serve.
GenreResults ==
    { << GRec("g1", "Action"), GRec("g2", "Drama") >>,
      << GRec(Absent, "Action") >>,
      << >> }

GenreResponses ==
    {Exc, Http(503, Some(<<>>), {})}
    \cup {Http(200, rs, {}) : rs \in {Some(r) : r \in GenreResults} \cup {None}}

\* A page the run has not asked for yet.
Unset == [kind |-> "unset", status |-> 0, results |-> None, total_pages |-> {}]

\* -------------------------------------------------------------- state
VARIABLES
    pc,             \* position in main()
    run,            \* how many times main() has been started
    api,            \* the movie endpoint's response to each page asked so far
    genreApi,       \* the genre endpoint's response once asked
    genre_results,  \* main's local, line 135
    genre,          \* main's local, line 138
    pagination,     \* main's local, line 141
    movie_results,  \* main's local, line 145
    total_pages,    \* main's local, line 145
    dfs,            \* main's locals movies and movie_genres, line 149
    genres,         \* table etl_project.genres
    movies,         \* table etl_project.movies
    movie_genres,   \* table etl_project.movie_genres
    tx,             \* the write in progress inside load
    fetched,        \* pages fetched by this run, in order
    lastLoad,       \* the last load that returned: its table, frame and outcome
    runlog,         \* this run: genres loads called, write faults met; and
                    \* whether the previous run was stopped before its end
                    \* with movies already written
    h               \* the load harness: table under test, pass, snapshots

vars == <<pc, run, api, genreApi, genre_results, genre, pagination, movie_results,
          total_pages, dfs, genres, movies, movie_genres, tx, fetched, lastLoad,
          runlog, h>>

locals == <<genre_results, genre, pagination, movie_results, total_pages, dfs>>
store == <<genres, movies, movie_genres>>

IdleTx == [phase |-> "idle", name |-> "", keys |-> {}, rest |-> <<>>, work |-> EmptyBag,
           sent |-> 0, ret |-> ""]
NoLoad == [name |-> "", rel |-> NoRel, before |-> EmptyBag, outcome |-> "none",
           sent |-> 0]
NoLog == [genre_loads |-> 0, faults |-> FALSE, stopped |-> FALSE]
NoDfs == [ok |-> FALSE, movies |-> NoRel, movie_genres |-> NoRel]
NoH == [table |-> "", pass |-> 0, store0 |-> EmptyBag, table1 |-> EmptyBag,
        out1 |-> "none"]

Table(name) ==
    CASE name = "genres" -> genres
      [] name = "movies" -> movies
      [] OTHER -> movie_genres

Init ==
    /\ pc = "start"
    /\ run = 1
    /\ api = [p \in 1..MaxPages |-> Unset]
    /\ genreApi = Unset
    /\ genre_results = None
    /\ genre = [ok |-> FALSE, rel |-> NoRel]
    /\ pagination = 0
    /\ movie_results = None
    /\ total_pages = 0
    /\ dfs = NoDfs
    /\ genres = EmptyBag
    /\ movies = EmptyBag
    /\ movie_genres = EmptyBag
    /\ tx = IdleTx
    /\ fetched = <<>>
    /\ lastLoad = NoLoad
    /\ runlog = NoLog
    /\ h = NoH

\* --------------------------------------------------------------- load
\* A load with if_exists='replace': the table is emptied before the write.
load_Replace(data_ok, data, table_name, ret) ==
    /\ UNCHANGED store
    /\ pc' = IF data_ok THEN "load" ELSE ret
    /\ tx' = IF data_ok
             THEN [phase |-> IF data.rows = <<>> THEN "commit" ELSE "exec",
                   name |-> table_name, keys |-> data.keys, rest |-> data.rows,
                   work |-> EmptyBag, sent |-> 0, ret |-> ret]
             ELSE IdleTx
    /\ lastLoad' = [name |-> table_name, rel |-> data,
                    before |-> Table(table_name),
                    outcome |-> IF data_ok THEN "running" ELSE "nodata",
                    sent |-> 0]

\* load(data, table_name, engine), lines 92-98: to_sql hands the frame's rows
\* to insert_on_conflict_update.  A data of None raises inside the try and is
\* logged; an empty frame is written without any statement.  Control comes
\* back at ret in every case.
load(data_ok, data, table_name, ret) ==
    /\ UNCHANGED store
    /\ IF ~data_ok
       THEN /\ pc' = ret
            /\ tx' = IdleTx
            /\ lastLoad' = [name |-> table_name, rel |-> data,
                            before |-> Table(table_name), outcome |-> "nodata",
                            sent |-> 0]
       ELSE IF data.rows = <<>>
       THEN /\ pc' = ret
            /\ tx' = IdleTx
            /\ lastLoad' = [name |-> table_name, rel |-> data,
                            before |-> Table(table_name), outcome |-> "empty",
                            sent |-> 0]
       ELSE /\ pc' = "load"
            /\ tx' = [phase |-> "exec", name |-> table_name, keys |-> data.keys,
                      rest |-> data.rows, work |-> Table(table_name), sent |-> 0,
                      ret |-> ret]
            /\ lastLoad' = [name |-> table_name, rel |-> data,
                            before |-> Table(table_name), outcome |-> "running",
                            sent |-> 0]

\* What the store holds of the table under write once the exception of a
\* failed write has been swallowed at lines 125-126.  A statement the store
\* rejects and a failing connection ("fault") abort the transaction, and the
\* table is as before the call.  An exception raised on the client inside
\* execute_values ("client": a value that cannot be adapted, met when its
\* page of rows is built) leaves the transaction valid; nothing rolls it
\* back, and to_sql commits it on its way out: the statements already sent
\* become the table.
AfterFailure(why, name) ==
    IF why = "client" /\ tx.name = name THEN tx.work ELSE Table(name)

\* A failed write that unwinds the run instead of returning to main.
WriteFails_Unwinds(why) ==
    /\ pc' = "crashed"
    /\ tx' = IdleTx
    /\ lastLoad' = [lastLoad EXCEPT !.outcome = why, !.sent = tx.sent]
    /\ runlog' = [runlog EXCEPT !.faults = @ \/ why = "fault"]
    /\ genres' = AfterFailure(why, "genres")
    /\ movies' = AfterFailure(why, "movies")
    /\ movie_genres' = AfterFailure(why, "movie_genres")

\* The write raised: the exception is logged at lines 125-126 (line 124 is
\* not reached) and load returns.
WriteFails(why) ==
    /\ pc' = tx.ret
    /\ tx' = IdleTx
    /\ lastLoad' = [lastLoad EXCEPT !.outcome = why, !.sent = tx.sent]
    /\ runlog' = [runlog EXCEPT !.faults = @ \/ why = "fault"]
    /\ genres' = AfterFailure(why, "genres")
    /\ movies' = AfterFailure(why, "movies")
    /\ movie_genres' = AfterFailure(why, "movie_genres")

\* Line 123, one page of execute_values inside the open transaction: the
\* page's statement is built on the client, which raises on a value it cannot
\* adapt, and sent; the store may reject it, or the connection may fail
\* (fault).
ExecuteValues ==
    /\ pc = "load"
    /\ tx.phase = "exec"
    /\ \E fault \in BOOLEAN :
         IF PageRaises(FirstPage(tx.rest))
         THEN WriteFails("client")
         ELSE IF StatementRejected(tx.name, tx.keys, FirstPage(tx.rest))
         THEN WriteFails("rejected")
         ELSE IF fault
         THEN WriteFails("fault")
         ELSE /\ tx' = [tx EXCEPT
                          !.work = Statement(tx.name, tx.work, tx.keys, FirstPage(tx.rest)),
                          !.rest = AfterFirstPage(tx.rest),
                          !.sent = @ + 1,
                          !.phase = IF AfterFirstPage(tx.rest) = <<>>
                                    THEN "commit" ELSE "exec"]
              /\ UNCHANGED <<pc, lastLoad, store, runlog>>
    /\ UNCHANGED <<run, api, genreApi, locals, fetched, h>>

\* Line 124, conn.connection.commit(): the transaction's rows become the table.
Commit ==
    /\ pc = "load"
    /\ tx.phase = "commit"
    /\ \E fault \in BOOLEAN :
         IF fault
         THEN WriteFails("fault")
         ELSE /\ genres' = IF tx.name = "genres" THEN tx.work ELSE genres
              /\ movies' = IF tx.name = "movies" THEN tx.work ELSE movies
              /\ movie_genres' = IF tx.name = "movie_genres" THEN tx.work
                                 ELSE movie_genres
              /\ pc' = tx.ret
              /\ tx' = IdleTx
              /\ lastLoad' = [lastLoad EXCEPT !.outcome = "ok", !.sent = tx.sent]
              /\ UNCHANGED runlog
    /\ UNCHANGED <<run, api, genreApi, locals, fetched, h>>

\* --------------------------------------------------------------- main
\* Line 135: genre_results = extract_genre(...).
ExtractGenre(responses) ==
    /\ pc = "start"
    /\ \E resp \in responses :
         /\ genreApi \in {Unset, resp}
         /\ genreApi' = resp
         /\ genre_results' = extract_genre(resp)
    /\ pc' = "genre_check"
    /\ UNCHANGED <<run, api, genre, pagination, movie_results, total_pages, dfs,
                   store, tx, fetched, lastLoad, runlog, h>>

\* A main that ends the run when the genre extraction returned no records.
TransformGenre_StopsWhenEmpty ==
    /\ pc = "genre_check"
    /\ IF Truthy(genre_results)
       THEN /\ genre' = transform_genre(genre_results.v)
            /\ pc' = "load_genres"
       ELSE /\ pc' = "done"
            /\ UNCHANGED genre
    /\ UNCHANGED <<run, api, genreApi, genre_results, pagination, movie_results,
                   total_pages, dfs, store, tx, fetched, lastLoad, runlog, h>>

\* Lines 137-138: if genre_results: genre = transform_genre(genre_results).
TransformGenre ==
    /\ pc = "genre_check"
    /\ IF Truthy(genre_results)
       THEN /\ genre' = transform_genre(genre_results.v)
            /\ pc' = "load_genres"
       ELSE /\ pc' = "page_init"
            /\ UNCHANGED genre
    /\ UNCHANGED <<run, api, genreApi, genre_results, pagination, movie_results,
                   total_pages, dfs, store, tx, fetched, lastLoad, runlog, h>>

\* A main that goes on to the movie pages without loading the genres first.
LoadGenres_Deferred ==
    /\ pc = "load_genres"
    /\ pc' = "page_init"
    /\ UNCHANGED <<run, api, genreApi, locals, store, tx, fetched, lastLoad,
                   runlog, h>>

\* Line 139: load(genre, 'genres', engine).
LoadGenres ==
    /\ pc = "load_genres"
    /\ load(genre.ok, genre.rel, "genres", "page_init")
    /\ runlog' = [runlog EXCEPT !.genre_loads = @ + 1]
    /\ UNCHANGED <<run, api, genreApi, locals, fetched, h>>

\* Line 141: pagination = 1.
PageInit ==
    /\ pc = "page_init"
    /\ pagination' = 1
    /\ pc' = "fetch"
    /\ UNCHANGED <<run, api, genreApi, genre_results, genre, movie_results,
                   total_pages, dfs, store, tx, fetched, lastLoad, runlog, h>>

\* Line 145: movie_results, total_pages = extract_movies(..., pagination).
\* Unpacking the None that extract_movies returns after an exception raises a
\* TypeError nothing catches.
ExtractMovies(responses) ==
    /\ pc = "fetch"
    /\ \E resp \in responses :
         /\ api[pagination] \in {Unset, resp}
         /\ api' = [api EXCEPT ![pagination] = resp]
         /\ LET r == extract_movies(resp)
            IN  IF r.ret = "none"
                THEN /\ pc' = "crashed"
                     /\ UNCHANGED <<movie_results, total_pages>>
                ELSE /\ pc' = "page_check"
                     /\ movie_results' = r.results
                     /\ total_pages' = r.total_pages
    /\ fetched' = IF Len(fetched) < MaxLog THEN Append(fetched, pagination)
                  ELSE fetched
    /\ UNCHANGED <<run, genreApi, genre_results, genre, pagination, dfs, store, tx,
                   lastLoad, runlog, h>>

\* A page loop that steps over a page without records.
TransformMovies_SkipsEmptyPage ==
    /\ pc = "page_check"
    /\ IF Truthy(movie_results)
       THEN LET t == transform_movies(movie_results.v)
            IN  /\ IF t.ok
                   THEN pc' = "load_movies" /\ dfs' = t
                   ELSE pc' = "crashed" /\ UNCHANGED dfs
                /\ UNCHANGED pagination
       ELSE /\ UNCHANGED dfs
            /\ IF pagination < MaxPages
               THEN pc' = "fetch" /\ pagination' = pagination + 1
               ELSE pc' = "done" /\ UNCHANGED pagination
    /\ UNCHANGED <<run, api, genreApi, genre_results, genre, movie_results,
                   total_pages, store, tx, fetched, lastLoad, runlog, h>>

\* Lines 148-149: if movie_results: movies, movie_genres = transform_movies(...).
\* A falsy movie_results leads straight back to line 145 with the same page;
\* unpacking the None of a failed transform raises a TypeError nothing catches.
TransformMovies ==
    /\ pc = "page_check"
    /\ IF Truthy(movie_results)
       THEN LET t == transform_movies(movie_results.v)
            IN  IF t.ok
                THEN pc' = "load_movies" /\ dfs' = t
                ELSE pc' = "crashed" /\ UNCHANGED dfs
       ELSE pc' = "fetch" /\ UNCHANGED dfs
    /\ UNCHANGED <<run, api, genreApi, genre_results, genre, pagination,
                   movie_results, total_pages, store, tx, fetched, lastLoad, runlog, h>>

\* Line 151: load(movies, 'movies', engine).
LoadMovies ==
    /\ pc = "load_movies"
    /\ load(TRUE, dfs.movies, "movies", "load_movie_genres")
    /\ UNCHANGED <<run, api, genreApi, locals, fetched, runlog, h>>

\* Line 152: load(movie_genres, 'movie_genres', engine).
LoadMovieGenres ==
    /\ pc = "load_movie_genres"
    /\ load(TRUE, dfs.movie_genres, "movie_genres", "page_end")
    /\ UNCHANGED <<run, api, genreApi, locals, fetched, runlog, h>>

\* Lines 153-158: break on the last page, otherwise pagination += 1.
PageEnd ==
    /\ pc = "page_end"
    /\ IF pagination >= total_pages
       THEN pc' = "done" /\ UNCHANGED pagination
       ELSE pc' = "fetch" /\ pagination' = pagination + 1
    /\ UNCHANGED <<run, api, genreApi, genre_results, genre, movie_results,
                   total_pages, dfs, store, tx, fetched, lastLoad, runlog, h>>

\* Lines 161-162: the script is started again against the same store and the
\* same API, after the previous process ended or was stopped at any step; a
\* write in progress is rolled back.
Restart ==
    /\ run < MaxRuns
    /\ run' = run + 1
    /\ pc' = "start"
    /\ genre_results' = None
    /\ genre' = [ok |-> FALSE, rel |-> NoRel]
    /\ pagination' = 0
    /\ movie_results' = None
    /\ total_pages' = 0
    /\ dfs' = NoDfs
    /\ tx' = IdleTx
    /\ fetched' = <<>>
    /\ lastLoad' = NoLoad
    /\ runlog' = [genre_loads |-> 0, faults |-> FALSE,
                  stopped |-> pc \notin {"done", "crashed"} /\ movies # EmptyBag]
    /\ UNCHANGED <<api, genreApi, store, h>>

\* The steps of main() against endpoints that answer from the given sets.
Step(genreResponses, movieResponses) ==
    \/ ExtractGenre(genreResponses)
    \/ TransformGenre
    \/ LoadGenres
    \/ PageInit
    \/ ExtractMovies(movieResponses)
    \/ TransformMovies
    \/ LoadMovies
    \/ LoadMovieGenres
    \/ ExecuteValues
    \/ Commit
    \/ PageEnd

Next == Step(GenreResponses, MovieResponses)

\* One run of main() against an empty store.
Spec == Init /\ [][Next]_vars

\* main() is sequential code: while it has a step to take, it takes it.
FairSpec == Spec /\ WF_vars(Next)

\* Responses of the endpoints in the runs that are stopped and started again:
\* pages that give movie m1 different values, a page that fails to transform,
\* a failed fetch, a fetch without records.
RestartGenreResponses ==
    {Exc, Http(200, Some(<< GRec("g1", "Action"), GRec("g2", "Drama") >>), {})}

RestartMovieResponses ==
    {Exc, Http(503, Some(<<>>), {})}
    \cup {Http(200, Some(r), {n}) :
            r \in MovieResults \ {<<>>}, n \in 1..MaxPages}

\* Runs of main() stopped at any step and started again.
NextRestart == Step(RestartGenreResponses, RestartMovieResponses) \/ Restart
SpecRestart == Init /\ [][NextRestart]_vars

\* ------------------------------------------------------- load harness
\* transform and load applied to any page content and any table content: the
\* harness transforms one result list, loads the frame for the table under
\* test, and loads the same frame a second time.

\* Lists of at most two elements of S, and the three-element lists L adds.
ListsOf(S, L) ==
    {<<>>} \cup {<<a>> : a \in S} \cup {<<a, b>> : a, b \in S} \cup L

HMovieRecords ==
    {Rec(i, g, t, "2020-01-01", DropCols) :
        i \in {Null, "m1", "m2"},
        g \in {GNull, GL(<<>>), GL(<<"g1">>), GL(<<"g1", "g2", "g2", Null>>)},
        t \in {"a", "b"}}
    \cup {Rec("m1", GL(<<"g2">>), "a", "", DropCols),
          Rec("m1", GL(<<"g1">>), "a", "bad", DropCols),
          Rec(Absent, GL(<<"g1">>), "a", "2019-03-01", DropCols),
          Rec("m2", GAbsent, "b", "2019-03-01", DropCols),
          Rec("m2", GL(<<"g2">>), "b", Absent, DropCols),
          Rec("m2", GL(<<"g2">>), "b", "2019-03-01", DropCols \ {"video"})}

HMovieResults ==
    ListsOf(HMovieRecords,
        { << Rec("m1", GL(<<"g1">>), "a", "2020-01-01", DropCols),
             Rec("m2", GL(<<"g2">>), "a", "2020-01-01", DropCols),
             Rec("m1", GL(<<"g2">>), "b", "2019-03-01", DropCols) >>,
          << Rec("m1", GL(<<"g1">>), "a", "2020-01-01", DropCols),
             Rec("m1", GL(<<"g2">>), "b", "2020-01-01", DropCols),
             Rec("m2", GL(<<"g2">>), "b", "2019-03-01", DropCols) >>,
          << Rec("m2", GNull, "a", "2020-01-01", DropCols),
             Rec(Null, GL(<<"g2">>), "a", "2020-01-01", DropCols),
             Rec("m1", GL(<<"g2", "g1">>), "b", "bad", DropCols) >>,
          << Rec("m1", GL(<<"g1">>), "a", "2020-01-01", DropCols),
             Rec("m2", GL(<<"g2">>), "a", "2020-01-01", DropCols),
             Rec("m1", GL(<<"g2">>), NulText, "2020-01-01", DropCols) >>,
          << Rec("m1", GL(<<"g1", "g2", NulText>>), "a", "2020-01-01", DropCols) >> })

HGenreRecords ==
    {GRec("g1", "Action"), GRec("g1", "Adventure"), GRec("g2", "Drama"),
     GRec(Null, "Drama"), GRec("g2", Absent), GRec(Absent, "Action")}

HGenreResults ==
    ListsOf(HGenreRecords,
        { << GRec("g1", "Action"), GRec("g2", "Drama"), GRec("g1", "Adventure") >>,
          << GRec("g1", "Action"), GRec("g1", "Adventure"), GRec("g2", "Drama") >>,
          << GRec("g2", "Drama"), GRec("g1", "Action"), GRec(Null, "Drama") >>,
          << GRec("g1", "Action"), GRec("g2", "Drama"), GRec("g1", NulText) >> })

\* Contents of the table under test before the harness loads into it.
HGenres ==
    {SetToBag(t) : t \in
    { {},
      {[id |-> "g1", name |-> "Action"]},
      {[id |-> "g1", name |-> "Thriller"], [id |-> "g2", name |-> "Drama"]},
      {[id |-> "g2", name |-> Null]} }}
HMovies ==
    {SetToBag(t) : t \in
    { {},
      {[id |-> "m1", title |-> "a", release_date |-> "2020-01-01"]},
      {[id |-> "m1", title |-> "b", release_date |-> Null],
       [id |-> "m2", title |-> "a", release_date |-> "2019-03-01"]} }}
HMovieGenres ==
    {SetToBag(t) : t \in
    { {},
      {[movie_id |-> "m1", genre_id |-> "g1"]},
      {[movie_id |-> "m1", genre_id |-> "g3"], [movie_id |-> "m2", genre_id |-> "g1"]} }}

InitLoad ==
    /\ pc = "h_start"
    /\ run = 1
    /\ api = [p \in 1..MaxPages |-> Unset]
    /\ genreApi = Unset
    /\ genre = [ok |-> FALSE, rel |-> NoRel]
    /\ pagination = 0
    /\ total_pages = 0
    /\ dfs = NoDfs
    /\ tx = IdleTx
    /\ fetched = <<>>
    /\ lastLoad = NoLoad
    /\ runlog = NoLog
    /\ \E name \in TableNames :
         /\ genres \in (IF name = "genres" THEN HGenres ELSE {EmptyBag})
         /\ movies \in (IF name = "movies" THEN HMovies ELSE {EmptyBag})
         /\ movie_genres \in
              (IF name = "movie_genres" THEN HMovieGenres ELSE {EmptyBag})
         /\ genre_results \in
              (IF name = "genres" THEN {Some(r) : r \in HGenreResults} ELSE {None})
         /\ movie_results \in
              (IF name = "genres" THEN {None} ELSE {Some(r) : r \in HMovieResults})
         /\ h = [table |-> name, pass |-> 1, store0 |-> Table(name),
                 table1 |-> EmptyBag,
                 out1 |-> "none"]

\* Lines 138 and 149: the result list becomes the frame(s) to load; a failed
\* transform leaves nothing to load.
HTransform ==
    /\ pc = "h_start"
    /\ IF h.table = "genres"
       THEN /\ genre' = transform_genre(genre_results.v)
            /\ pc' = IF genre'.ok THEN "h_load" ELSE "h_done"
            /\ UNCHANGED dfs
       ELSE /\ dfs' = transform_movies(movie_results.v)
            /\ pc' = IF dfs'.ok THEN "h_load" ELSE "h_done"
            /\ UNCHANGED genre
    /\ UNCHANGED <<run, api, genreApi, genre_results, pagination, movie_results,
                   total_pages, store, tx, fetched, lastLoad, runlog, h>>

\* The frame main hands to load for a table.
FrameFor(name) ==
    CASE name = "genres" -> genre.rel
      [] name = "movies" -> dfs.movies
      [] OTHER -> dfs.movie_genres

\* Lines 139, 151, 152: load(frame, table, engine).
HLoad ==
    /\ pc = "h_load"
    /\ load(TRUE, FrameFor(h.table), h.table, "h_ret")
    /\ UNCHANGED <<run, api, genreApi, locals, fetched, runlog, h>>

\* The first load returned: keep what it left and load the same frame again.
HReturn ==
    /\ pc = "h_ret"
    /\ IF h.pass = 1
       THEN /\ h' = [h EXCEPT !.pass = 2, !.table1 = Table(h.table),
                              !.out1 = lastLoad.outcome]
            /\ pc' = "h_load"
       ELSE /\ pc' = "h_done"
            /\ UNCHANGED h
    /\ UNCHANGED <<run, api, genreApi, locals, store, tx, fetched, lastLoad, runlog>>

NextLoad == HTransform \/ HLoad \/ ExecuteValues \/ Commit \/ HReturn

SpecLoad == InitLoad /\ [][NextLoad]_vars

\* ------------------------------------------------- page order harness
\* Lines 148-152 applied to two pages in one order and, from the same store,
\* in the other order.

\* Pages that transform_movies accepts: movies m1 and m2 with changing
\* titles and genre lists, alone, together, and the same movie twice.
OrderPages ==
    LET m1a == Rec("m1", GL(<<"g1">>), "a", "2020-01-01", DropCols)
        m1b == Rec("m1", GL(<<"g2">>), "b", "2020-01-01", DropCols)
        m2a == Rec("m2", GL(<<"g1", "g2">>), "a", "2019-03-01", DropCols)
        m2b == Rec("m2", GL(<<>>), "b", "2019-03-01", DropCols)
    IN  { <<m1a>>, <<m1b>>, <<m2a>>, <<m1a, m2b>>, <<m1b, m2a>>, <<m1a, m1b>> }

InitOrder ==
    /\ pc = "o_page"
    /\ run = 1
    /\ api = [p \in 1..MaxPages |-> Unset]
    /\ genreApi = Unset
    /\ genre_results = None
    /\ genre = [ok |-> FALSE, rel |-> NoRel]
    /\ pagination = 0
    /\ total_pages = 0
    /\ movie_results = None
    /\ dfs = NoDfs
    /\ genres = EmptyBag
    /\ movies \in {EmptyBag,
                   One([id |-> "m1", title |-> "c", release_date |-> Null])}
    /\ movie_genres \in {EmptyBag, One([movie_id |-> "m1", genre_id |-> "g1"])}
    /\ tx = IdleTx
    /\ fetched = <<>>
    /\ lastLoad = NoLoad
    /\ runlog = NoLog
    /\ \E a, b \in OrderPages :
         h = [table |-> "pages", pass |-> 1, k |-> 1, pages |-> <<a, b>>,
              store0 |-> <<movies, movie_genres>>,
              table1 |-> <<EmptyBag, EmptyBag>>, out1 |-> "none"]

\* The page loaded k-th in this pass: the pages as given in the first pass,
\* swapped in the second.
OrderPage == IF h.pass = 1 THEN h.pages[h.k] ELSE h.pages[3 - h.k]

\* Lines 148-149 for the page whose turn it is.
OrderTransform ==
    /\ pc = "o_page"
    /\ movie_results' = Some(OrderPage)
    /\ dfs' = transform_movies(OrderPage)
    /\ pc' = "load_movies"
    /\ UNCHANGED <<run, api, genreApi, genre_results, genre, pagination,
                   total_pages, store, tx, fetched, lastLoad, runlog, h>>

\* Both loads of a page returned: go on with the other page; after the first
\* pass keep what it left and start over from the same store with the pages
\* swapped.
OrderNext ==
    /\ pc = "page_end"
    /\ IF h.k = 1
       THEN /\ h' = [h EXCEPT !.k = 2]
            /\ pc' = "o_page"
            /\ UNCHANGED store
       ELSE IF h.pass = 1
       THEN /\ h' = [h EXCEPT !.pass = 2, !.k = 1,
                              !.table1 = <<movies, movie_genres>>,
                              !.out1 = IF runlog.faults THEN "fault" ELSE "ok"]
            /\ pc' = "o_page"
            /\ movies' = h.store0[1]
            /\ movie_genres' = h.store0[2]
            /\ UNCHANGED genres
       ELSE /\ pc' = "o_done"
            /\ UNCHANGED <<h, store>>
    /\ UNCHANGED <<run, api, genreApi, locals, tx, fetched, lastLoad, runlog>>

NextOrder ==
    \/ OrderTransform
    \/ LoadMovies
    \/ LoadMovieGenres
    \/ ExecuteValues
    \/ Commit
    \/ OrderNext

SpecOrder == InitOrder /\ [][NextOrder]_vars

\* ------------------------------------------------------------- claims
Terminated == pc \in {"done", "crashed"}

\* The pages 1..n in order.
UpTo(n) == [i \in 1..n |-> i]

IsPrefix(s, t) == Len(s) <= Len(t) /\ \A i \in 1..Len(s) : s[i] = t[i]

\* Every movie page fetched so far was answered with a 20x status, a non-empty
\* result list and a total_pages of n (a missing field counting as 1).
GoodPage(resp, n) ==
    /\ resp.kind = "http"
    /\ StartsWith20(resp.status)
    /\ Truthy(resp.results)
    /\ resp.total_pages = {n} \/ (n = 1 /\ resp.total_pages = {})
AllFetchesGood(n) ==
    \A i \in 1..Len(fetched) : GoodPage(api[fetched[i]], n)

\* C1: when every movie page fetch succeeds with a non-empty result and
\* reports total_pages = N, main fetches pages 1..N in order, each once, and
\* then completes: the fetch log is a prefix of 1..N, the run does not end
\* abnormally, and at completion the log is exactly 1..N.
C1_PaginationCompletes ==
    \A n \in 1..MaxPages :
        (fetched # <<>> /\ AllFetchesGood(n)) =>
            /\ IsPrefix(fetched, UpTo(n))
            /\ pc # "crashed"
            /\ (pc = "done" => fetched = UpTo(n))

\* C2: the page loop terminates also when a page fetch yields no records:
\* every run eventually ends.
C2_PageLoopTerminates == <>Terminated

\* C10: a transport or decoding exception inside extract_movies does not end
\* the run with an unhandled error.
C10_ExtractionFailureSurvived ==
    ~(pc = "crashed" /\ pagination \in 1..MaxPages /\ api[pagination].kind = "exc")

\* Two tables hold the same rows, each as many times.
SameTable(a, b) == \A r \in Rows(a) \cup Rows(b) : CopiesIn(r, a) = CopiesIn(r, b)

\* C3: loading the same relation twice leaves the same rows, in count and
\* content, as loading it once: when the first load was not cut short by a
\* fault of the store, the table after the second load is the table the first
\* load left, for genres, movies and movie_genres alike.
C3_LoadIdempotent ==
    (pc = "h_done" /\ h.pass = 2 /\ h.out1 # "fault")
        => SameTable(Table(h.table), h.table1)

C3_Witness ==
    /\ pc = "h_done"
    /\ h.pass = 2
    /\ h.table = "movies"
    /\ h.out1 = "ok"
    /\ lastLoad.outcome = "ok"
    /\ lastLoad.sent > 1
    /\ ~SameTable(h.table1, h.store0)

\* The last row of a frame that carries an id.
LastWithId(rows, id) ==
    rows[CHOOSE i \in 1..Len(rows) :
            /\ rows[i].id = id
            /\ \A j \in 1..Len(rows) : rows[j].id = id => j <= i]

\* C4: after a load into genres or movies that no fault of the store cut
\* short, every id occurs once in the table and every id of the frame holds
\* the values of the frame's last row with that id.  (Stated for frames that
\* carry a column besides id and no null id.)
C4_LastWriteWins ==
    (/\ pc \in {"h_ret", "h_done"}
     /\ lastLoad.name \in {"genres", "movies"}
     /\ lastLoad.outcome \in {"ok", "rejected"}
     /\ lastLoad.rel.keys # {"id"}
     /\ \A i \in 1..Len(lastLoad.rel.rows) : lastLoad.rel.rows[i].id # Null)
    => LET t == Table(lastLoad.name)
           rows == lastLoad.rel.rows
       IN  /\ \A r1, r2 \in Rows(t) : r1.id = r2.id => r1 = r2 /\ CopiesIn(r1, t) = 1
           /\ \A i \in 1..Len(rows) :
                \E r \in Rows(t) :
                    /\ r.id = rows[i].id
                    /\ \A c \in lastLoad.rel.keys :
                         r[c] = LastWithId(rows, rows[i].id)[c]

\* The non-null elements of a record's genre list.
GenresOf(r) == {g \in Range(r.genre_ids.v) : g # Null}

\* The records of the page that pass the filtering.
ValidRecords ==
    {r \in Range(movie_results.v) : r.id \notin {Absent, Null} /\ r.genre_ids.k = "list"}

JoinRow(m, g) == [movie_id |-> m, genre_id |-> g]

\* The movie_genres load of the harness returned after writing, or with
\* nothing to write.
JoinLoaded ==
    /\ h.table = "movie_genres"
    /\ pc \in {"h_ret", "h_done"}
    /\ lastLoad.outcome \in {"ok", "empty"}

\* C5 as stated: after transform_movies and the load into movie_genres, the
\* rows of a record's movie are exactly one row per distinct non-null element
\* of its genre list, and no other row.
C5_OnlyOwnGenres ==
    JoinLoaded =>
        \A r \in ValidRecords :
            \A row \in Rows(movie_genres) :
                row.movie_id = r.id => row.genre_id \in GenresOf(r)

\* C5, amended: after transform_movies and the load into movie_genres, each
\* distinct non-null element g of a kept record's genre list has exactly one
\* row (movie_id, g); every row of that movie was in the table before or
\* comes from a kept record of the page with the same id; no row with a null
\* genre is added; and neither duplicates in the list nor a second load are
\* rejected or multiply rows.
C5_Flattening ==
    /\ lastLoad.name = "movie_genres" => lastLoad.outcome # "rejected"
    /\ JoinLoaded =>
        /\ \A r \in ValidRecords :
             /\ \A g \in GenresOf(r) : CopiesIn(JoinRow(r.id, g), movie_genres) = 1
             /\ \A row \in Rows(movie_genres) :
                  row.movie_id = r.id =>
                     \/ row \in Rows(h.store0)
                     \/ \E r2 \in ValidRecords :
                            r2.id = r.id /\ row.genre_id \in GenresOf(r2)
        /\ \A row \in Rows(movie_genres) :
             CopiesIn(row, movie_genres) = 1 /\ row.genre_id # Null

C5_Witness ==
    /\ JoinLoaded
    /\ h.pass = 2
    /\ pc = "h_done"
    /\ h.out1 = "ok"
    /\ lastLoad.outcome = "ok"
    /\ \E r \in ValidRecords :
         /\ r.genre_ids.v = <<"g1", "g2", "g2", Null>>
         /\ CopiesIn(JoinRow(r.id, "g2"), movie_genres) = 1
         /\ JoinRow(r.id, "g2") \notin Rows(h.store0)

\* C6: no row of movies and no row of movie_genres comes from a record whose
\* id or genre list is null or missing: every row was in the table before or
\* is the row of a record of the page that has both.
C6_ReferentialFiltering ==
    h.table # "genres" =>
        /\ \A row \in Rows(movies) :
             \/ row \in Rows(h.store0)
             \/ \E r \in ValidRecords :
                    /\ row.id = r.id
                    /\ row.title = r.title
                    /\ row.release_date = ParseDate(r.release_date)
        /\ \A row \in Rows(movie_genres) :
             \/ row \in Rows(h.store0)
             \/ \E r \in ValidRecords :
                    row.movie_id = r.id /\ row.genre_id \in GenresOf(r)

C6_Witness ==
    /\ h.table = "movies"
    /\ pc = "h_done"
    /\ lastLoad.outcome = "ok"
    /\ ~SameTable(movies, h.store0)
    /\ ValidRecords # {}
    /\ \E r \in Range(movie_results.v) : r.genre_ids.k = "null" /\ r.id = "m2"

\* The pages of main's movie phase have begun or a movie write is under way
\* only after the genre step is over.
TaxonomyOver ==
    /\ pc \notin {"start", "genre_check", "load_genres"}
    /\ ~(pc = "load" /\ tx.name = "genres")

\* The genre step of this run has been taken and is over: the genre endpoint
\* was asked and main holds what extract_genre made of its answer; when that
\* is a non-empty list the genres load was called, once, and has returned;
\* otherwise no genres load was called.
TaxonomyDone ==
    /\ genreApi # Unset
    /\ genre_results = extract_genre(genreApi)
    /\ runlog.genre_loads = (IF Truthy(genre_results) THEN 1 ELSE 0)
    /\ TaxonomyOver

\* C7: in every run the genre step (the fetch and, when it returned records,
\* the genres load) has been completed or skipped before the first movie page
\* is fetched and before any row is written to movies or movie_genres, and
\* the genres load is called at most once: every step that asks the movie
\* endpoint or changes movies or movie_genres starts from a state in which
\* the genre step is done, and so does every state with a page fetched or a
\* movie row written.
C7_TaxonomyFirst ==
    /\ [](runlog.genre_loads <= 1)
    /\ [][(\/ api' # api
           \/ fetched' # fetched
           \/ movies' # movies
           \/ movie_genres' # movie_genres) => TaxonomyDone]_vars
    /\ []((\/ pc = "fetch"
           \/ fetched # <<>>
           \/ movies # EmptyBag
           \/ movie_genres # EmptyBag) => TaxonomyDone)

C7_Witness ==
    /\ pc = "done"
    /\ runlog.genre_loads = 1
    /\ Rows(genres) # {}
    /\ Rows(movies) # {}
    /\ Rows(movie_genres) # {}
    /\ Len(fetched) = MaxPages

\* C9: when load returns, either every row of the relation has been applied to
\* the table or the table is as it was before the call; while the write is in
\* progress the table is unchanged.
C9_BatchAtomic ==
    lastLoad.name # "" =>
        LET t == Table(lastLoad.name)
        IN  IF lastLoad.outcome = "ok"
            THEN SameTable(t, WriteAll(lastLoad.name, lastLoad.before,
                                       lastLoad.rel.keys, lastLoad.rel.rows))
            ELSE SameTable(t, lastLoad.before)

\* What the pages of a load that no fault interrupts leave of a table that
\* held tbl before the call, with work the table inside the transaction: the
\* statements sent so far when the client raises on a page, tbl when the
\* store rejects a statement, every statement applied otherwise.
RECURSIVE AfterPages(_, _, _, _, _)
AfterPages(name, tbl, work, keys, rows) ==
    IF rows = <<>> THEN work
    ELSE IF PageRaises(FirstPage(rows)) THEN work
    ELSE IF StatementRejected(name, keys, FirstPage(rows)) THEN tbl
    ELSE AfterPages(name, tbl, Statement(name, work, keys, FirstPage(rows)),
                    keys, AfterFirstPage(rows))

\* What a load that no fault interrupts leaves of a table.
LoadResult(name, tbl, rel) == AfterPages(name, tbl, tbl, rel.keys, rel.rows)

\* The genres table an uninterrupted run leaves, from the empty store, with
\* the response the genre endpoint gave.
GenresAfterRun ==
    LET genre_res == extract_genre(genreApi)
    IN  IF ~Truthy(genre_res) THEN EmptyBag
        ELSE LET g == transform_genre(genre_res.v)
             IN  IF g.ok THEN LoadResult("genres", EmptyBag, g.rel) ELSE EmptyBag

\* The movies and movie_genres tables an uninterrupted run leaves when it is
\* at page p with the tables mv and mg, with the responses the movie endpoint
\* gave: the loop of lines 144-157.
RECURSIVE PagesAfterRun(_, _, _)
PagesAfterRun(p, mv, mg) ==
    LET r == extract_movies(api[p])
        here == [movies |-> mv, movie_genres |-> mg]
    IN  IF api[p] = Unset \/ r.ret = "none" \/ ~Truthy(r.results) THEN here
        ELSE LET t == transform_movies(r.results.v)
             IN  IF ~t.ok THEN here
                 ELSE LET mv2 == LoadResult("movies", mv, t.movies)
                          mg2 == LoadResult("movie_genres", mg, t.movie_genres)
                      IN  IF p >= r.total_pages
                          THEN [movies |-> mv2, movie_genres |-> mg2]
                          ELSE PagesAfterRun(p + 1, mv2, mg2)

\* C8: with the same API responses, a run stopped after any prefix of its
\* steps and followed by a run started again from page 1 leaves genres,
\* movies and movie_genres as one uninterrupted run from the empty store
\* does: whenever a run that met no fault of the store has ended, whatever
\* the runs before it did, the three tables are those of the uninterrupted
\* run.
C8_RestartConverges ==
    (Terminated /\ ~runlog.faults) =>
        /\ SameTable(genres, GenresAfterRun)
        /\ SameTable(movies, PagesAfterRun(1, EmptyBag, EmptyBag).movies)
        /\ SameTable(movie_genres, PagesAfterRun(1, EmptyBag, EmptyBag).movie_genres)

C8_Witness ==
    /\ run = 2
    /\ runlog.stopped
    /\ pc = "done"
    /\ ~runlog.faults
    /\ fetched = <<1, 2>>
    /\ \E row \in Rows(movies) : row.id = "m1" /\ row.title = "b"
    /\ Rows(genres) # {}
    /\ Rows(movie_genres) # {}

\* The page the run is at was fetched with records and transform_movies
\* failed on them.
TransformFailedHere ==
    /\ pagination \in 1..MaxPages
    /\ extract_movies(api[pagination]).ret = "tuple"
    /\ Truthy(extract_movies(api[pagination]).results)
    /\ ~transform_movies(extract_movies(api[pagination]).results.v).ok

\* C11: when transform_movies fails on a page's batch, only that page is
\* abandoned: the run does not stop abnormally at that page.
C11_TransformFailureSurvived == ~(pc = "crashed" /\ TransformFailedHere)

\* A load that failed: the frame was None, the client raised on a value, the
\* store rejected a statement, or the connection failed.
LoadFailed(l) == l.outcome \in {"nodata", "client", "rejected", "fault"}

\* Where main goes on after the load into a table returns.
AfterLoad(name) ==
    CASE name = "genres" -> "page_init"
      [] name = "movies" -> "load_movie_genres"
      [] OTHER -> "page_end"

\* C12: a load that fails is caught and the run is not unwound: the step in
\* which a load fails hands control back to main right after that load's call
\* with the page number as it was, main has a next step there, and that step
\* is the first page fetch's preparation after a failed genres load, the
\* movie_genres load after a failed movies load, and the end of the run or
\* the next page after a failed movie_genres load.
C12_LoadFailureSurvived ==
    /\ [][(LoadFailed(lastLoad') /\ lastLoad' # lastLoad) =>
            /\ pc' = AfterLoad(lastLoad'.name)
            /\ pagination' = pagination]_vars
    /\ [](LoadFailed(lastLoad) /\ pc = AfterLoad(lastLoad.name)
            => ENABLED <<Next>>_vars)
    /\ [][(LoadFailed(lastLoad) /\ pc = "page_init") =>
            pc' = "fetch" /\ pagination' = 1]_vars
    /\ [][(LoadFailed(lastLoad) /\ pc = "load_movie_genres") =>
            lastLoad'.name = "movie_genres" /\ pagination' = pagination]_vars
    /\ [][(LoadFailed(lastLoad) /\ pc = "page_end") =>
            \/ pc' = "done" /\ pagination >= total_pages
            \/ pc' = "fetch" /\ pagination' = pagination + 1]_vars

C12_Witness ==
    /\ pc = "done"
    /\ runlog.genre_loads = 1
    /\ Rows(genres) = {}
    /\ Rows(movies) = {}
    /\ Rows(movie_genres) # {}
    /\ runlog.faults

\* C13: after a fetch answered with status 401 the run issues no further
\* fetch, of that page or of a later one: a 401 response is the last entry of
\* the fetch log.
C13_AbortOn401 ==
    \A i \in 1..Len(fetched) :
        (api[fetched[i]].kind = "http" /\ api[fetched[i]].status = 401)
            => i = Len(fetched)

\* C14: the relation transform_genre returns holds no row with a null id and
\* holds every input record that has an id, unchanged.
C14_GenreNullIdsDropped ==
    (genre.ok /\ ~genre_results.null) =>
        /\ \A i \in 1..Len(genre.rel.rows) : genre.rel.rows[i].id # Null
        /\ \A r \in Range(genre_results.v) :
             r.id \notin {Absent, Null} => GenreRow(r) \in Range(genre.rel.rows)

\* Both orders of the two pages were loaded and no fault of the store cut a
\* load short.
BothOrdersLoaded == pc = "o_done" /\ h.pass = 2 /\ ~runlog.faults

\* A movie id that both pages give, with different values.
PagesDisagree ==
    \E r1 \in Range(MovieRows(h.pages[1])), r2 \in Range(MovieRows(h.pages[2])) :
        r1.id = r2.id /\ r1 # r2

\* C15 as stated: loading two pages in either order leaves the same movies
\* and the same movie_genres.
C15_OrderIndependent ==
    BothOrdersLoaded =>
        /\ SameTable(movies, h.table1[1])
        /\ SameTable(movie_genres, h.table1[2])

\* C15, amended: loading two pages in either order leaves the same
\* movie_genres, and the same movies unless the two pages give one movie id
\* different values (then the page loaded last decides).
C15_OrderIndependentUnlessDisagree ==
    BothOrdersLoaded =>
        /\ SameTable(movie_genres, h.table1[2])
        /\ ~PagesDisagree => SameTable(movies, h.table1[1])

C15_Witness ==
    /\ BothOrdersLoaded
    /\ ~PagesDisagree
    /\ h.pages[1] # h.pages[2]
    /\ \E r \in Rows(movies) : r.id = "m1" /\ r.title # "c"
    /\ \E r \in Rows(movies) : r.id = "m2"
    /\ ~SameTable(movies, h.store0[1])
    /\ ~SameTable(movie_genres, h.store0[2])
    /\ Len(h.pages[1]) = 2

\* The fetch of the page the run is at returned no records and total_pages 0.
ExtractionFailedHere ==
    /\ pc = "page_check"
    /\ ~Truthy(movie_results)
    /\ total_pages = 0

\* C16: when the extraction of a page fails, the page loop exits at that page:
\* the run ends, and no later page is fetched.
C16_ExitsAtFailedPage ==
    \A p \in 1..MaxPages :
        (ExtractionFailedHere /\ pagination = p)
            ~> (Terminated /\ \A i \in 1..Len(fetched) : fetched[i] <= p)

\* The genre extraction returned no records: None after an exception, or an
\* empty or missing list.
TaxonomyEmpty == genreApi # Unset /\ ~Truthy(extract_genre(genreApi))

\* C17: the page loop always starts, at page 1, after the genre step, also
\* when the genre extraction returned no records: every run comes to fetch a
\* movie page, the first page fetched is page 1, and when the genre
\* extraction returned no records the run performs no genres load.
C17_PageLoopAlwaysStarts ==
    /\ <>(fetched # <<>>)
    /\ [](fetched # <<>> => fetched[1] = 1 /\ TaxonomyOver)
    /\ [](TaxonomyEmpty => runlog.genre_loads = 0 /\ lastLoad.name # "genres")

C17_Witness ==
    /\ genreApi = Http(200, Some(<<>>), {})
    /\ fetched = <<1>>
    /\ pc = "page_check"
    /\ Truthy(movie_results)
    /\ runlog.genre_loads = 0

\* C18: the page counter starts at 1, never decreases, and grows by exactly
\* one only at the end of a page whose fetch returned records, after both
\* loads of the page were attempted (the movie_genres load is called only
\* when the movies load has returned), with the page number below the
\* reported total_pages; so the pages fetched go 1, then the same page or the
\* next, and a next page only after the page before it returned records.
C18_PageCounter ==
    /\ [][pagination' # pagination =>
            \/ pc = "page_init" /\ pagination' = 1
            \/ /\ pagination' = pagination + 1
               /\ pc = "page_end"
               /\ fetched[Len(fetched)] = pagination
               /\ Truthy(movie_results)
               /\ movie_results = extract_movies(api[pagination]).results
               /\ lastLoad.name = "movie_genres"
               /\ lastLoad.outcome # "running"
               /\ pagination < total_pages]_vars
    /\ [][(lastLoad'.name = "movie_genres" /\ lastLoad.name # "movie_genres") =>
            lastLoad.name = "movies" /\ lastLoad.outcome # "running"]_vars
    /\ [](fetched # <<>> => fetched[1] = 1)
    /\ [](\A i \in 1..(Len(fetched) - 1) :
            \/ fetched[i + 1] = fetched[i]
            \/ /\ fetched[i + 1] = fetched[i] + 1
               /\ Truthy(extract_movies(api[fetched[i]]).results))

C18_Witness ==
    /\ fetched = <<1>>
    /\ pagination = 2
    /\ pc = "fetch"
    /\ Truthy(movie_results)
    /\ runlog.faults
    /\ Rows(movies) = {}
    /\ lastLoad.name = "movie_genres"
    /\ lastLoad.outcome = "ok"

\* The movies frame of a fetched page, as transform_movies gives it.
MoviesFrameOf(p) ==
    LET r == extract_movies(api[p])
    IN  IF r.ret = "tuple" /\ Truthy(r.results)
        THEN transform_movies(r.results.v).movies
        ELSE NoRel

\* No load of this run failed so far: no fault of the store, and no movies
\* frame the store rejects.
NoLoadFailed ==
    /\ ~runlog.faults
    /\ \A i \in 1..Len(fetched) :
         ~AnyRejected("movies", MoviesFrameOf(fetched[i]).keys,
                      MoviesFrameOf(fetched[i]).rows)

\* C19: within a page the movie_genres load is called only when the movies
\* load of the same page has returned; the join rows of a page carry only ids
\* of the page's movies relation; and when no load fails, at the end of every
\* page each movie_id in movie_genres is the id of a row of movies.
C19_MoviesBeforeJoinRows ==
    /\ [][(lastLoad'.name = "movie_genres" /\ lastLoad.name # "movie_genres") =>
            /\ lastLoad.name = "movies"
            /\ lastLoad.outcome # "running"
            /\ lastLoad.rel = dfs.movies
            /\ lastLoad'.rel = dfs.movie_genres]_vars
    /\ [](dfs.ok =>
            \A i \in 1..Len(dfs.movie_genres.rows) :
                \E j \in 1..Len(dfs.movies.rows) :
                    dfs.movies.rows[j].id = dfs.movie_genres.rows[i].movie_id)
    /\ []((pc = "page_end" /\ NoLoadFailed) =>
            \A row \in Rows(movie_genres) :
                \E m \in Rows(movies) : m.id = row.movie_id)

C19_Witness ==
    /\ pc = "page_end"
    /\ NoLoadFailed
    /\ fetched = <<1, 2>>
    /\ lastLoad.name = "movie_genres"
    /\ lastLoad.outcome = "ok"
    /\ \E row \in Rows(movie_genres) : row.genre_id = "g3"
    /\ Rows(movies) # {}

Ids(tbl) == {r.id : r \in Rows(tbl)}

\* C20: no step removes rows and a load touches only its own table: in every
\* step the ids of genres, the ids of movies and the pairs of movie_genres
\* only grow, a table changes only in a step of the load into that table
\* while the other two stay as they are, and every row movie_genres already
\* held stays as it is.
C20_OnlyGrowsOwnTable ==
    [][/\ Ids(genres) \subseteq Ids(genres')
       /\ Ids(movies) \subseteq Ids(movies')
       /\ Rows(movie_genres) \subseteq Rows(movie_genres')
       /\ \A r \in Rows(movie_genres) :
            CopiesIn(r, movie_genres') = CopiesIn(r, movie_genres)
       /\ genres' # genres =>
            /\ pc = "load" /\ tx.name = "genres"
            /\ movies' = movies /\ movie_genres' = movie_genres
       /\ movies' # movies =>
            /\ pc = "load" /\ tx.name = "movies"
            /\ genres' = genres /\ movie_genres' = movie_genres
       /\ movie_genres' # movie_genres =>
            /\ pc = "load" /\ tx.name = "movie_genres"
            /\ genres' = genres /\ movies' = movies]_vars

C20_Witness ==
    /\ run = 2
    /\ pc = "page_end"
    /\ pagination = 2
    /\ lastLoad.name = "movie_genres"
    /\ lastLoad.outcome = "ok"
    /\ lastLoad.before # EmptyBag
    /\ ~SameTable(movie_genres, lastLoad.before)
    /\ Rows(genres) # {}
    /\ \E r \in Rows(movies) : r.title = "b"

====
